---- MODULE Spec2Model ----
(***************************************************************************)
(* Model of references/rnn_practice/rnn_implementations/                   *)
(* 4_Dynamic_LSTM_RNN.ipynb: the notebook's cells executed top to bottom.  *)
(* Arrays are functions over 0-based index ranges, as in numpy.  The       *)
(* library's numerics (LSTM gates, loss value, optimizer update) are kept  *)
(* as provenance tokens: which run produced a value, and which component.  *)
(***************************************************************************)
EXTENDS Integers, Sequences, FiniteSets, TLC

\* ---- configuration (cell 2), scaled down so that the series can be enumerated
n_epochs == 2
truncated_backprop_steps == 4
n_classes == 2
echo_step == 3
batch_size == 2
n_hidden == 20
\* length of one row of the reshaped data (10000 in the notebook)
RowLen == 13
\* the notebook's 50000 = 5 * 10000 is a multiple of batch_size; so is this
total_series_length == batch_size * RowLen
\* a batch count rounded up instead of down
n_batches_RoundedUp ==
    ((batch_size * RowLen) \div batch_size + truncated_backprop_steps - 1)
        \div truncated_backprop_steps

n_batches == (total_series_length \div batch_size) \div truncated_backprop_steps
\* the literal 100 of "if batch%100 == 0"
print_every == 2
\* np.random.choice is bounded to the series whose non-zero entries form one
\* run of at most MaxRun consecutive elements
MaxRun == 3

VARIABLES pc, defined, placeholders, epoch, batch, x, y, X_data, y_data,
          current_cell_state, current_hidden_state, feed, final_state_out,
          total_loss, training_losses, output, plotted

vars == <<pc, defined, placeholders, epoch, batch, x, y, X_data, y_data,
          current_cell_state, current_hidden_state, feed, final_state_out,
          total_loss, training_losses, output, plotted>>

\* ---- arrays
\* a name that is not bound yet
Unbound == [kind |-> "unbound"]

Size(a) == Cardinality(DOMAIN a)

\* shape of a two-dimensional array
Shape(a) == <<Size(a), IF Size(a) = 0 THEN 0 ELSE Size(a[0])>>

\* a roll to the left: np.roll(a, -k)
Roll_Left(a, k) == [i \in DOMAIN a |-> a[(i + k) % Size(a)]]

\* a roll that is one position short
Roll_OneShort(a, k) == [i \in DOMAIN a |-> a[(i - (k - 1)) % Size(a)]]

\* np.roll(a, k) on a flat array
Roll(a, k) == [i \in DOMAIN a |-> a[(i - k) % Size(a)]]

\* a[0:k] = 0
ZeroPrefix(a, k) == [i \in DOMAIN a |-> IF i < k THEN 0 ELSE a[i]]

\* a column-major (Fortran order) reshape
Reshape_ColumnMajor(a, rows) ==
    LET cols == Size(a) \div rows
    IN  [r \in 0 .. rows - 1 |-> [c \in 0 .. cols - 1 |-> a[c * rows + r]]]

\* a.reshape((rows, -1)), row-major
Reshape(a, rows) ==
    LET cols == Size(a) \div rows
    IN  [r \in 0 .. rows - 1 |-> [c \in 0 .. cols - 1 |-> a[r * cols + c]]]

\* a slice bound beyond the row is clipped to the row length
Min(a, b) == IF a < b THEN a ELSE b

\* a window that starts one column late
ColumnSlice_OneLate(a, s, e) ==
    [r \in DOMAIN a |->
        [c \in 0 .. (Min(e + 1, Size(a[r])) - Min(s + 1, Size(a[r])) - 1)
            |-> a[r][s + 1 + c]]]

\* a[:, s:e]: the columns s .. e - 1 of every row
ColumnSlice(a, s, e) ==
    [r \in DOMAIN a |->
        [c \in 0 .. (Min(e, Size(a[r])) - Min(s, Size(a[r])) - 1) |-> a[r][s + c]]]

\* ---- generateData
\* the runs of consecutive positions, at most MaxRun long
Runs ==
    {r \in (0 .. total_series_length - 1) \X (0 .. MaxRun) :
        r[1] + r[2] <= total_series_length}

\* a draw from 1 .. n_classes instead of 0 .. n_classes - 1
RandomChoice_OneBased ==
    UNION {{[i \in 0 .. total_series_length - 1 |->
                IF i \in DOMAIN v THEN v[i] + 1 ELSE 1]
              : v \in [r[1] .. r[1] + r[2] - 1 -> 1 .. n_classes - 1]} : r \in Runs}

\* the outcomes of np.random.choice(n_classes, total_series_length)
RandomChoice ==
    UNION {{[i \in 0 .. total_series_length - 1 |->
                IF i \in DOMAIN v THEN v[i] ELSE 0]
              : v \in [r[1] .. r[1] + r[2] - 1 -> 1 .. n_classes - 1]} : r \in Runs}

\* generateData with its random draw made explicit; flat_x/flat_y are the
\* locals x, y before the reshape
generateData(draw) ==
    LET x0 == draw
        y0 == Roll(x0, echo_step)
        y1 == ZeroPrefix(y0, echo_step)
    IN  [flat_x |-> x0, flat_y |-> y1,
         x |-> Reshape(x0, batch_size), y |-> Reshape(y1, batch_size)]

\* what a call generateData() can return
generateDataResults == {generateData(draw) : draw \in RandomChoice}

\* ---- graph
\* a dimension declared None accepts any size
None == -1

\* a placeholder whose number of time steps is left open
PlaceholderShape_Dynamic == <<batch_size, None>>

\* shape=[batch_size, truncated_backprop_steps]
PlaceholderShape == <<batch_size, truncated_backprop_steps>>

\* shape=[batch_size, n_hidden]
StateShape == <<batch_size, n_hidden>>

\* the framework's check of a fed value against a placeholder's declared shape
ShapeCompatible(declared, fed) ==
    /\ Len(declared) = Len(fed)
    /\ \A d \in 1 .. Len(declared) : declared[d] = None \/ declared[d] = fed[d]

\* np.zeros((batch_size, n_hidden))
Zeros == [kind |-> "zeros", shape |-> StateShape, epoch |-> -1, batch |-> -1]

\* the value a run returns for one component of final_state
StateValue(k, e, b) == [kind |-> k, shape |-> StateShape, epoch |-> e, batch |-> b]

\* tf.contrib.rnn.LSTMStateTuple(c, h)
LSTMStateTuple(c, h) == [c |-> c, h |-> h]

\* an unpacking with the components swapped
Unpack_Swapped(state) == <<state.h, state.c>>

\* a, b = state : the tuple unpacks in field order (c, h)
Unpack(state) == <<state.c, state.h>>

\* init_state = LSTMStateTuple(cell_state, hidden_state), for the values fed
\* to the two state placeholders
InitState(fed_cell_state, fed_hidden_state) ==
    LSTMStateTuple(fed_cell_state, fed_hidden_state)

\* sess.run([loss, optimizer, final_state], feed_dict): the loss of this step
\* and the state after the last time step of this batch
SessRun(fd, e, b) ==
    [loss |-> [epoch |-> e, batch |-> b],
     final_state |-> LSTMStateTuple(StateValue("c", e, b), StateValue("h", e, b))]

\* ---- the notebook, cell by cell
Init ==
    /\ pc = "config"
    /\ defined = << >>
    /\ placeholders = Unbound
    /\ epoch = 0
    /\ batch = 0
    /\ x = Unbound
    /\ y = Unbound
    /\ X_data = Unbound
    /\ y_data = Unbound
    /\ current_cell_state = Unbound
    /\ current_hidden_state = Unbound
    /\ feed = Unbound
    /\ final_state_out = Unbound
    /\ total_loss = Unbound
    /\ training_losses = << >>
    /\ output = << >>
    /\ plotted = Unbound

Bind(names) == defined' = defined \o names

\* cell 2: global configuration parameters
CellConfig ==
    /\ pc = "config"
    /\ pc' = "generateData"
    /\ Bind(<<"config">>)
    /\ UNCHANGED <<placeholders, epoch, batch, x, y, X_data, y_data,
                   current_cell_state, current_hidden_state, feed,
                   final_state_out, total_loss, training_losses, output, plotted>>

\* a cell that also calls the function it defines
CellGenerateData_Calls ==
    /\ pc = "generateData"
    /\ pc' = "placeholders"
    /\ defined' = defined \o <<"generateData">>
    /\ \E d \in generateDataResults :
          /\ x' = d.flat_x
          /\ y' = d.flat_y
          /\ X_data' = d.x
          /\ y_data' = d.y
    /\ UNCHANGED <<placeholders, epoch, batch,
                   current_cell_state, current_hidden_state, feed,
                   final_state_out, total_loss, training_losses, output, plotted>>

\* cell 4: def generateData() -- the function is defined, not called
CellGenerateData ==
    /\ pc = "generateData"
    /\ pc' = "placeholders"
    /\ Bind(<<"generateData">>)
    /\ UNCHANGED <<placeholders, epoch, batch, x, y, X_data, y_data,
                   current_cell_state, current_hidden_state, feed,
                   final_state_out, total_loss, training_losses, output, plotted>>

\* cell 6: the placeholders and init_state
CellPlaceholders ==
    /\ pc = "placeholders"
    /\ pc' = "lstm"
    /\ placeholders' = [X_placeholder |-> PlaceholderShape,
                        y_placeholder |-> PlaceholderShape,
                        cell_state |-> StateShape,
                        hidden_state |-> StateShape]
    /\ Bind(<<"X_placeholder", "y_placeholder", "cell_state", "hidden_state",
              "init_state">>)
    /\ UNCHANGED <<epoch, batch, x, y, X_data, y_data,
                   current_cell_state, current_hidden_state, feed,
                   final_state_out, total_loss, training_losses, output, plotted>>

\* cell 7: LSTMCell and dynamic_rnn
CellLstm ==
    /\ pc = "lstm"
    /\ pc' = "reshape"
    /\ Bind(<<"lstm_cell", "outputs", "final_state">>)
    /\ UNCHANGED <<placeholders, epoch, batch, x, y, X_data, y_data,
                   current_cell_state, current_hidden_state, feed,
                   final_state_out, total_loss, training_losses, output, plotted>>

\* cells 9 and 10: reshape of outputs and targets, logits
CellReshape ==
    /\ pc = "reshape"
    /\ pc' = "loss"
    /\ Bind(<<"temp", "y_temp", "V", "c", "l">>)
    /\ UNCHANGED <<placeholders, epoch, batch, x, y, X_data, y_data,
                   current_cell_state, current_hidden_state, feed,
                   final_state_out, total_loss, training_losses, output, plotted>>

\* cell 12: loss and optimizer
CellLoss ==
    /\ pc = "loss"
    /\ pc' = "session"
    /\ Bind(<<"loss", "optimizer">>)
    /\ UNCHANGED <<placeholders, epoch, batch, x, y, X_data, y_data,
                   current_cell_state, current_hidden_state, feed,
                   final_state_out, total_loss, training_losses, output, plotted>>

\* cell 14: with tf.Session() ... training_losses = []
SessionStart ==
    /\ pc = "session"
    /\ pc' = "epoch"
    /\ training_losses' = << >>
    /\ epoch' = 0
    /\ Bind(<<"sess", "training_losses">>)
    /\ UNCHANGED <<placeholders, batch, x, y, X_data, y_data,
                   current_cell_state, current_hidden_state, feed,
                   final_state_out, total_loss, output, plotted>>

\* for epoch in range(n_epochs): prints, generateData(), zero states
EpochBegin ==
    /\ pc = "epoch"
    /\ epoch < n_epochs
    /\ \E d \in generateDataResults :
          /\ x' = d.flat_x
          /\ y' = d.flat_y
          /\ X_data' = d.x
          /\ y_data' = d.y
    /\ output' = output \o <<[kind |-> "blank", epoch |-> epoch, batch |-> -1,
                              loss |-> Unbound],
                             [kind |-> "epoch", epoch |-> epoch, batch |-> -1,
                              loss |-> Unbound]>>
    /\ current_cell_state' = Zeros
    /\ current_hidden_state' = Zeros
    /\ batch' = 0
    /\ pc' = "batch"
    /\ UNCHANGED <<defined, placeholders, epoch, feed, final_state_out,
                   total_loss, training_losses, plotted>>

\* start_idx .. sess.run(...): slice the batch and run one training step
RunStep ==
    /\ pc = "batch"
    /\ batch < n_batches
    /\ LET start_idx == batch * truncated_backprop_steps
           end_idx == start_idx + truncated_backprop_steps
           batch_x == ColumnSlice(X_data, start_idx, end_idx)
           batch_y == ColumnSlice(y_data, start_idx, end_idx)
           fd == [X_placeholder |-> batch_x, y_placeholder |-> batch_y,
                  cell_state |-> current_cell_state,
                  hidden_state |-> current_hidden_state,
                  init_state |-> InitState(current_cell_state,
                                           current_hidden_state),
                  start_idx |-> start_idx, end_idx |-> end_idx]
       IN  /\ feed' = fd
           /\ IF /\ ShapeCompatible(placeholders.X_placeholder, Shape(batch_x))
                 /\ ShapeCompatible(placeholders.y_placeholder, Shape(batch_y))
              THEN LET r == SessRun(fd, epoch, batch)
                   IN  /\ total_loss' = r.loss
                       /\ final_state_out' = r.final_state
                       /\ pc' = "record"
              ELSE \* ValueError: Cannot feed value of shape ...
                   /\ pc' = "error"
                   /\ UNCHANGED <<total_loss, final_state_out>>
    /\ UNCHANGED <<defined, placeholders, epoch, batch, x, y, X_data, y_data,
                   current_cell_state, current_hidden_state, training_losses,
                   output, plotted>>

\* a loop body that keeps only the latest loss
Record_KeepsLatest ==
    /\ pc = "record"
    /\ current_cell_state' = final_state_out.c
    /\ current_hidden_state' = final_state_out.h
    /\ training_losses' = <<total_loss>>
    /\ pc' = "print"
    /\ UNCHANGED <<defined, placeholders, epoch, batch, x, y, X_data, y_data,
                   feed, final_state_out, total_loss, output, plotted>>

\* _current_cell_state, _current_hidden_state = _final_state; append the loss
Record ==
    /\ pc = "record"
    /\ current_cell_state' = Unpack(final_state_out)[1]
    /\ current_hidden_state' = Unpack(final_state_out)[2]
    /\ training_losses' = Append(training_losses, total_loss)
    /\ pc' = "print"
    /\ UNCHANGED <<defined, placeholders, epoch, batch, x, y, X_data, y_data,
                   feed, final_state_out, total_loss, output, plotted>>

\* a print on the last batch of every hundred
ShouldPrint_Last(b) == (b + 1) % print_every = 0

\* if batch%100 == 0
ShouldPrint(b) == b % print_every = 0

\* if batch%100 == 0: print("Step: ", batch, "Loss: ", _total_loss); next batch
PrintStep ==
    /\ pc = "print"
    /\ output' = IF ShouldPrint(batch)
                 THEN Append(output, [kind |-> "step", epoch |-> epoch,
                                      batch |-> batch, loss |-> total_loss])
                 ELSE output
    /\ batch' = batch + 1
    /\ pc' = "batch"
    /\ UNCHANGED <<defined, placeholders, epoch, x, y, X_data, y_data,
                   current_cell_state, current_hidden_state, feed,
                   final_state_out, total_loss, training_losses, plotted>>

\* range(n_batches) is exhausted: next epoch
BatchLoopEnd ==
    /\ pc = "batch"
    /\ batch >= n_batches
    /\ epoch' = epoch + 1
    /\ pc' = "epoch"
    /\ UNCHANGED <<defined, placeholders, batch, x, y, X_data, y_data,
                   current_cell_state, current_hidden_state, feed,
                   final_state_out, total_loss, training_losses, output, plotted>>

\* an epoch loop that stops one epoch early
EpochLoopEnd_Early ==
    /\ pc = "epoch"
    /\ epoch >= n_epochs - 1
    /\ pc' = "plot"
    /\ UNCHANGED <<defined, placeholders, epoch, batch, x, y, X_data, y_data,
                   current_cell_state, current_hidden_state, feed,
                   final_state_out, total_loss, training_losses, output, plotted>>

\* range(n_epochs) is exhausted: the with-block ends
EpochLoopEnd ==
    /\ pc = "epoch"
    /\ epoch >= n_epochs
    /\ pc' = "plot"
    /\ UNCHANGED <<defined, placeholders, epoch, batch, x, y, X_data, y_data,
                   current_cell_state, current_hidden_state, feed,
                   final_state_out, total_loss, training_losses, output, plotted>>

\* cell 15: plt.plot(training_losses)
CellPlot ==
    /\ pc = "plot"
    /\ plotted' = training_losses
    /\ pc' = "done"
    /\ UNCHANGED <<defined, placeholders, epoch, batch, x, y, X_data, y_data,
                   current_cell_state, current_hidden_state, feed,
                   final_state_out, total_loss, training_losses, output>>

Next ==
    \/ CellConfig
    \/ CellGenerateData
    \/ CellPlaceholders
    \/ CellLstm
    \/ CellReshape
    \/ CellLoss
    \/ SessionStart
    \/ EpochBegin
    \/ RunStep
    \/ Record
    \/ PrintStep
    \/ BatchLoopEnd
    \/ EpochLoopEnd
    \/ CellPlot

Spec == Init /\ [][Next]_vars

\* the interpreter keeps executing the script: a statement that can run, runs
FairSpec ==
    /\ Spec
    /\ WF_vars(CellConfig) /\ WF_vars(CellGenerateData)
    /\ WF_vars(CellPlaceholders) /\ WF_vars(CellLstm)
    /\ WF_vars(CellReshape) /\ WF_vars(CellLoss)
    /\ WF_vars(SessionStart) /\ WF_vars(EpochBegin)
    /\ WF_vars(RunStep) /\ WF_vars(Record) /\ WF_vars(PrintStep)
    /\ WF_vars(BatchLoopEnd) /\ WF_vars(EpochLoopEnd) /\ WF_vars(CellPlot)

\* ---- properties
\* the locals and the results of the latest generateData() call exist
DataGenerated == pc \in {"batch", "record", "print", "error"} \/ epoch > 0

\* the latest feed_dict is the one of step (epoch, batch)
StepFed == pc \in {"record", "print"}

Cols == total_series_length \div batch_size

\* C1: on the flat series, before the reshape, y[i] = x[i - echo_step] for
\* every i >= echo_step and y[i] = 0 for every i < echo_step
C1_FlatEcho ==
    DataGenerated =>
        /\ DOMAIN x = 0 .. total_series_length - 1
        /\ DOMAIN y = 0 .. total_series_length - 1
        /\ \A i \in 0 .. total_series_length - 1 :
              IF i >= echo_step THEN y[i] = x[i - echo_step] ELSE y[i] = 0

\* a non-zero value at the end of x, which np.roll brought to the front of y,
\* has been overwritten
C1_Witness ==
    /\ DataGenerated
    /\ x[total_series_length - 1] # 0
    /\ y[echo_step - 1] = 0

\* C2: row by row, y[r][c] = x[r][c - echo_step] for every column
\* c >= echo_step and y[r][c] = 0 for every column c < echo_step
C2_RowEcho ==
    DataGenerated =>
        \A r \in 0 .. batch_size - 1 : \A c \in 0 .. Cols - 1 :
            IF c >= echo_step THEN y_data[r][c] = X_data[r][c - echo_step]
            ELSE y_data[r][c] = 0

\* C3: x and y are returned with the shape (batch_size, total_series_length /
\* batch_size), and element (r, c) is element r * cols + c of the flat series
C3_ShapeRowMajor ==
    DataGenerated =>
        /\ Shape(X_data) = <<batch_size, Cols>>
        /\ Shape(y_data) = <<batch_size, Cols>>
        /\ \A r \in 0 .. batch_size - 1 :
              /\ DOMAIN X_data[r] = 0 .. Cols - 1
              /\ DOMAIN y_data[r] = 0 .. Cols - 1
              /\ \A c \in 0 .. Cols - 1 :
                    /\ X_data[r][c] = x[r * Cols + c]
                    /\ y_data[r][c] = y[r * Cols + c]
        /\ batch_size * Cols = total_series_length

\* a non-zero element in a row other than the first
C3_Witness ==
    /\ DataGenerated
    /\ X_data[batch_size - 1][1] # 0
    /\ y_data[batch_size - 1][1 + echo_step] # 0

\* C4: every element of the returned x and y is an integer in
\* 0 .. n_classes - 1
C4_ClassRange ==
    DataGenerated =>
        \A r \in DOMAIN X_data : \A c \in DOMAIN X_data[r] :
            /\ X_data[r][c] \in 0 .. n_classes - 1
            /\ y_data[r][c] \in 0 .. n_classes - 1

\* the largest class was rolled to the front of y and forced to 0 there
C4_Witness ==
    /\ DataGenerated
    /\ x[total_series_length - echo_step] = n_classes - 1
    /\ X_data[batch_size - 1][Cols - echo_step] = n_classes - 1
    /\ y_data[0][0] = 0

\* C5: end_idx never exceeds the row length, and batch_x and batch_y have
\* exactly the shape (batch_size, truncated_backprop_steps) of the placeholders
C5_FullBatches ==
    /\ pc # "error"
    /\ StepFed =>
          /\ feed.end_idx <= Cols
          /\ feed.start_idx = batch * truncated_backprop_steps
          /\ Shape(feed.X_placeholder) = <<batch_size, truncated_backprop_steps>>
          /\ Shape(feed.y_placeholder) = <<batch_size, truncated_backprop_steps>>
          /\ Shape(feed.X_placeholder) = placeholders.X_placeholder
          /\ Shape(feed.y_placeholder) = placeholders.y_placeholder

\* the last batch of a later epoch has been fed
C5_Witness ==
    /\ StepFed
    /\ epoch = n_epochs - 1
    /\ batch = n_batches - 1
    /\ feed.end_idx = n_batches * truncated_backprop_steps

Range(f) == {f[i] : i \in DOMAIN f}

IsPrefix(a, b) == Len(a) <= Len(b) /\ a = SubSeq(b, 1, Len(a))

\* the names the cells bind, in the order of the cells
CellOrder ==
    <<"config", "generateData",
      "X_placeholder", "y_placeholder", "cell_state", "hidden_state", "init_state",
      "lstm_cell", "outputs", "final_state",
      "temp", "y_temp", "V", "c", "l",
      "loss", "optimizer",
      "sess", "training_losses">>

\* C6 as stated: the training data is generated before the placeholders are
\* declared
C6_DataBeforePlaceholders ==
    "X_placeholder" \in Range(defined) => X_data # Unbound

\* C6: the steps run in the order define generateData, declare placeholders,
\* LSTM cell, dynamic unroll, reshape, loss, optimizer, iterate and print, each
\* finished before the next starts; the training data is generated inside the
\* training loop, after the optimizer is created, and plotting comes last
C6_StepOrder ==
    /\ IsPrefix(defined, CellOrder)
    /\ (X_data # Unbound \/ y_data # Unbound \/ feed # Unbound \/ output # << >>)
          => defined = CellOrder
    /\ (placeholders # Unbound) = ("X_placeholder" \in Range(defined))
    /\ plotted # Unbound => (pc = "done" /\ epoch = n_epochs)

\* the first training data exists, with the whole graph built before it
C6_Witness ==
    /\ pc = "batch"
    /\ epoch = 0
    /\ X_data # Unbound
    /\ "optimizer" \in Range(defined)

\* the number of training steps whose loss has been appended
StepsRecorded ==
    CASE pc \in {"batch", "record", "error"} -> epoch * n_batches + batch
      [] pc = "print" -> epoch * n_batches + batch + 1
      [] pc \in {"epoch", "plot", "done"} -> epoch * n_batches
      [] OTHER -> 0

\* C7: training_losses starts empty, grows by exactly one entry per training
\* step, in the order of the steps, is never truncated or reset, and when it is
\* plotted (after the whole loop) its length is n_epochs * n_batches
C7_OneLossPerStep ==
    /\ Len(training_losses) = StepsRecorded
    /\ \A i \in 1 .. Len(training_losses) :
          training_losses[i] = [epoch |-> (i - 1) \div n_batches,
                                batch |-> (i - 1) % n_batches]
    /\ plotted # Unbound =>
          /\ plotted = training_losses
          /\ Len(plotted) = n_epochs * n_batches
          /\ epoch = n_epochs

\* the curve of a run of several epochs has been plotted
C7_Witness ==
    /\ pc = "done"
    /\ n_epochs > 1
    /\ Len(plotted) = n_epochs * n_batches
    /\ plotted[n_batches + 1] = [epoch |-> 1, batch |-> 0]

\* step (e, b) has reached its print statement and passed it
PrintPassed(e, b) ==
    \/ e < epoch
    \/ e = epoch /\ b < batch /\ pc \in {"batch", "record", "print", "error"}

KindRank(k) == CASE k = "blank" -> 0 [] k = "epoch" -> 1 [] OTHER -> 2

StepLine(e, b) ==
    [kind |-> "step", epoch |-> e, batch |-> b, loss |-> [epoch |-> e, batch |-> b]]

\* C8: in every epoch a step line is printed for exactly the batch indices
\* divisible by the print interval, once each, with the loss of that batch's
\* finished training step; the header of epoch e comes before every step line
\* of epoch e and after every step line of epoch e - 1
C8_PrintedSteps ==
    /\ \A e \in 0 .. n_epochs - 1 : \A b \in 0 .. n_batches - 1 :
          (StepLine(e, b) \in Range(output)) <=>
              (PrintPassed(e, b) /\ b % print_every = 0)
    /\ \A i \in 1 .. Len(output) :
          /\ output[i].kind = "step" =>
                /\ output[i] = StepLine(output[i].epoch, output[i].batch)
                /\ output[i].epoch * n_batches + output[i].batch + 1
                      <= Len(training_losses)
                /\ training_losses[output[i].epoch * n_batches + output[i].batch + 1]
                      = output[i].loss
          /\ \A j \in i + 1 .. Len(output) :
                /\ output[i] # output[j]
                /\ output[i].epoch <= output[j].epoch
                /\ output[i].epoch = output[j].epoch =>
                      /\ KindRank(output[i].kind) <= KindRank(output[j].kind)
                      /\ output[i].batch <= output[j].batch
    /\ \A e \in 0 .. epoch - 1 :
          /\ Cardinality({i \in 1 .. Len(output) :
                            output[i].kind = "step" /\ output[i].epoch = e})
                = (n_batches + print_every - 1) \div print_every
          /\ Cardinality({i \in 1 .. Len(output) :
                            output[i].kind = "epoch" /\ output[i].epoch = e}) = 1

\* a later epoch has printed a step line other than that of batch 0
C8_Witness ==
    /\ pc = "done"
    /\ StepLine(n_epochs - 1, print_every) \in Range(output)

\* the shapes a batch could have
FeedShapes ==
    {<<r, t>> : r \in 1 .. batch_size + 1, t \in 1 .. truncated_backprop_steps + 1}

C10_StateThreading ==
    StepFed =>
        /\ feed.cell_state = IF batch = 0 THEN Zeros
                             ELSE StateValue("c", epoch, batch - 1)
        /\ feed.hidden_state = IF batch = 0 THEN Zeros
                               ELSE StateValue("h", epoch, batch - 1)
        /\ feed.init_state.c = feed.cell_state
        /\ feed.init_state.h = feed.hidden_state
        /\ final_state_out = LSTMStateTuple(StateValue("c", epoch, batch),
                                            StateValue("h", epoch, batch))

\* a later batch of a later epoch has been fed the state of its predecessor
C10_Witness ==
    /\ pc = "record"
    /\ epoch > 0
    /\ batch > 0
    /\ feed.cell_state = StateValue("c", epoch, batch - 1)
    /\ feed.hidden_state = StateValue("h", epoch, batch - 1)

\* the first batch of a later epoch has been fed zeros
C10_WitnessZeros ==
    /\ pc = "record"
    /\ epoch > 0
    /\ batch = 0
    /\ feed.init_state = LSTMStateTuple(Zeros, Zeros)

\* a training step starts: sess.run is called
StepStarts == pc = "batch" /\ pc' = "record"

\* the (epoch, batch) pair after p in lexicographic order
NextPair(p) ==
    IF p.batch + 1 < n_batches
    THEN [epoch |-> p.epoch, batch |-> p.batch + 1]
    ELSE [epoch |-> p.epoch + 1, batch |-> 0]

\* C11: the training loop terminates; its steps run one at a time, each for
\* the (epoch, batch) pair that follows the pair of the step before in
\* lexicographic order, starting with (0, 0); at the end exactly
\* n_epochs * n_batches steps have run, the last one for the last pair
C11_SequentialTermination ==
    /\ <>(pc = "done")
    /\ [][StepStarts =>
            total_loss' = IF total_loss = Unbound
                          THEN [epoch |-> 0, batch |-> 0]
                          ELSE NextPair(total_loss)]_vars
    /\ [][pc' = "record" => pc = "batch"]_vars
    /\ [][training_losses' # training_losses =>
            /\ pc = "record"
            /\ training_losses' = Append(training_losses, total_loss)]_vars
    /\ [](pc \in {"plot", "done"} =>
            /\ total_loss = [epoch |-> n_epochs - 1, batch |-> n_batches - 1]
            /\ Len(training_losses) = n_epochs * n_batches)

\* the loop has ended after the step of the last pair
C11_Witness ==
    /\ pc = "done"
    /\ total_loss = [epoch |-> n_epochs - 1, batch |-> n_batches - 1]
    /\ Len(training_losses) = n_epochs * n_batches
    /\ n_epochs * n_batches > n_batches

\* C12: inside a batch, batch_y[r][j] = batch_x[r][j - echo_step] for
\* j >= echo_step; for a batch k >= 1 and j < echo_step, batch_y[r][j] equals
\* batch_x[r][truncated_backprop_steps - echo_step + j] of batch k - 1
C12_EchoAcrossBatches ==
    /\ [](StepFed =>
            \A r \in 0 .. batch_size - 1 :
                \A j \in echo_step .. truncated_backprop_steps - 1 :
                    feed.y_placeholder[r][j] = feed.X_placeholder[r][j - echo_step])
    /\ [][(StepStarts /\ batch >= 1) =>
            \A r \in 0 .. batch_size - 1 :
                \A j \in 0 .. echo_step - 1 :
                    feed'.y_placeholder[r][j] =
                        feed.X_placeholder[r][truncated_backprop_steps - echo_step + j]]_vars

\* a later batch starts with a non-zero label in a row other than the first,
\* the echo of an input of the batch before
C12_Witness ==
    /\ StepFed
    /\ batch >= 1
    /\ echo_step <= truncated_backprop_steps
    /\ feed.y_placeholder[batch_size - 1][0] # 0
    /\ X_data[batch_size - 1][batch * truncated_backprop_steps - echo_step] # 0

\* C13: batch 0 starts at column 0, every window is truncated_backprop_steps
\* wide, the start_idx of batch k + 1 is the end_idx of batch k, and batch_x
\* and batch_y are the same window of X_data and y_data
C13_ContiguousWindows ==
    /\ [](StepFed =>
            /\ batch = 0 => feed.start_idx = 0
            /\ feed.end_idx - feed.start_idx = truncated_backprop_steps
            /\ \A r \in 0 .. batch_size - 1 :
                  /\ DOMAIN feed.X_placeholder[r] = 0 .. truncated_backprop_steps - 1
                  /\ DOMAIN feed.y_placeholder[r] = 0 .. truncated_backprop_steps - 1
                  /\ \A j \in 0 .. truncated_backprop_steps - 1 :
                        /\ feed.X_placeholder[r][j] = X_data[r][feed.start_idx + j]
                        /\ feed.y_placeholder[r][j] = y_data[r][feed.start_idx + j])
    /\ [][(StepStarts /\ batch >= 1) =>
            /\ feed'.start_idx = feed.end_idx
            /\ feed'.start_idx > feed.start_idx]_vars

\* the last window of an epoch follows the one before it
C13_Witness ==
    /\ StepFed
    /\ batch = n_batches - 1
    /\ batch >= 2
    /\ feed.start_idx = (n_batches - 1) * truncated_backprop_steps
    /\ \E r \in 0 .. batch_size - 1 : feed.X_placeholder[r][0] # 0

====
